---------------------------- MODULE Spec2Model ----------------------------
(***************************************************************************)
(* A model of SublimeHaskell's background worker (worker.py) and of the    *)
(* symbol model (symbols.py): module ownership of declarations,            *)
(* same_module, the location identifiers, update_with and the popup        *)
(* renderers.                                                              *)
(***************************************************************************)
EXTENDS Integers, Sequences, FiniteSets, TLC

VARIABLES
    \* ---- worker.py ----
    worker,     \* the global `worker`: 0 is PyNone, else the id of a Worker
    wstatus,    \* per Worker: "absent", "new", "waiting", "running", "dead"
    wjobs,      \* per Worker: self.jobs, the FIFO queue of job ids
    wcur,       \* per Worker: the job its run() loop is executing, 0 if none
    tpc,        \* per submitter thread: its position inside run_async
    tjob,       \* per submitter thread: the job its current call submits
    jkind,      \* per job: what fn does, "returns" or "raises"; "none" if unused
    before,     \* per job: the jobs whose run_async call had returned when its call began
    returned,   \* jobs whose run_async call returned
    aborted,    \* jobs whose run_async call ended with an exception
    begun,      \* jobs whose fn has been called by a worker
    finished,   \* jobs whose fn has ended (returned or raised)
    logged,     \* jobs for which log(...) was carried out
    \* ---- symbols.py, Module / Declaration objects ----
    mods,       \* per Module object: "absent" or its record
    decls,      \* per Declaration object: "absent" or its record
    lastOp,     \* the last operation carried out on the objects, with its outcome
    \* ---- symbols.py, functions ----
    call        \* the last function call: its name, arguments and result

wvars == <<worker, wstatus, wjobs, wcur, tpc, tjob, jkind, before, returned,
           aborted, begun, finished, logged>>
mvars == <<mods, decls, lastOp>>
vars == <<worker, wstatus, wjobs, wcur, tpc, tjob, jkind, before, returned,
          aborted, begun, finished, logged, mods, decls, lastOp, call>>

(***************************************************************************)
(* Bounds                                                                  *)
(***************************************************************************)
NThreads == 2
MaxCalls == 3

Threads == 1 .. NThreads
\* a call creates a Worker only when it read `worker` as PyNone, and `worker`
\* is never reset: at most one Worker per thread is ever created
Workers == 1 .. NThreads
Jobs == 1 .. MaxCalls
JobKinds == {"returns", "raises"}

(***************************************************************************)
(* worker.py                                                               *)
(***************************************************************************)
\* the names `log` and `log_debug` of line 21 are bound by no import or
\* definition of worker.py: calling log raises NameError
LogDefined == FALSE

WorkerInit ==
    /\ worker = 0
    /\ wstatus = [w \in Workers |-> "absent"]
    /\ wjobs = [w \in Workers |-> <<>>]
    /\ wcur = [w \in Workers |-> 0]
    /\ tpc = [t \in Threads |-> "idle"]
    /\ tjob = [t \in Threads |-> 0]
    /\ jkind = [j \in Jobs |-> "none"]
    /\ before = [j \in Jobs |-> {}]
    /\ returned = {}
    /\ aborted = {}
    /\ begun = {}
    /\ finished = {}
    /\ logged = {}

NumCalls == Cardinality({j \in Jobs : jkind[j] # "none"})

\* a thread calls run_async(name, fn): the call begins
run_async_Call(t) ==
    /\ tpc[t] = "idle"
    /\ NumCalls < MaxCalls
    /\ \E k \in JobKinds :
         LET j == NumCalls + 1 IN
         /\ jkind' = [jkind EXCEPT ![j] = k]
         /\ tjob' = [tjob EXCEPT ![t] = j]
         /\ before' = [before EXCEPT ![j] = returned]
    /\ tpc' = [tpc EXCEPT ![t] = "test"]
    /\ UNCHANGED <<worker, wstatus, wjobs, wcur, returned, aborted, begun,
                   finished, logged>>

\* line 31: if not worker
run_async_Test(t) ==
    /\ tpc[t] = "test"
    /\ tpc' = [tpc EXCEPT ![t] = IF worker = 0 THEN "create" ELSE "put"]
    /\ UNCHANGED <<worker, wstatus, wjobs, wcur, tjob, jkind, before, returned,
                   aborted, begun, finished, logged>>

\* line 32: worker = Worker()
run_async_Create(t) ==
    /\ tpc[t] = "create"
    /\ LET w == CHOOSE x \in Workers :
                  /\ wstatus[x] = "absent"
                  /\ \A y \in Workers : wstatus[y] = "absent" => x <= y
       IN /\ wstatus' = [wstatus EXCEPT ![w] = "new"]
          /\ worker' = w
    /\ tpc' = [tpc EXCEPT ![t] = "start"]
    /\ UNCHANGED <<wjobs, wcur, tjob, jkind, before, returned, aborted, begun,
                   finished, logged>>

\* line 33: worker.start(); Thread.start raises RuntimeError on a thread
\* that was started before
run_async_Start(t) ==
    /\ tpc[t] = "start"
    /\ IF wstatus[worker] = "new"
       THEN /\ wstatus' = [wstatus EXCEPT ![worker] = "waiting"]
            /\ tpc' = [tpc EXCEPT ![t] = "put"]
            /\ UNCHANGED aborted
       ELSE /\ aborted' = aborted \cup {tjob[t]}
            /\ tpc' = [tpc EXCEPT ![t] = "idle"]
            /\ UNCHANGED wstatus
    /\ UNCHANGED <<worker, wjobs, wcur, tjob, jkind, before, returned, begun,
                   finished, logged>>

\* Worker.async: self.jobs.put((name, fn, args, kwargs))
Worker_async(w, j) == [wjobs EXCEPT ![w] = Append(@, j)]

\* line 34: worker.async(name, fn, ...), and the call returns
run_async_Put(t) ==
    /\ tpc[t] = "put"
    /\ wjobs' = Worker_async(worker, tjob[t])
    /\ returned' = returned \cup {tjob[t]}
    /\ tpc' = [tpc EXCEPT ![t] = "idle"]
    /\ UNCHANGED <<worker, wstatus, wcur, tjob, jkind, before, aborted, begun,
                   finished, logged>>

\* line 17 and the call of line 19: self.jobs.get() blocks while the queue is
\* empty, then fn is called
Worker_run_Get(w) ==
    /\ wstatus[w] = "waiting"
    /\ wjobs[w] # <<>>
    /\ wcur' = [wcur EXCEPT ![w] = Head(wjobs[w])]
    /\ wjobs' = [wjobs EXCEPT ![w] = Tail(@)]
    /\ wstatus' = [wstatus EXCEPT ![w] = "running"]
    /\ begun' = begun \cup {Head(wjobs[w])}
    /\ UNCHANGED <<worker, tpc, tjob, jkind, before, returned, aborted,
                   finished, logged>>

\* line 19: fn returns, the loop goes back to jobs.get()
Worker_run_Return(w) ==
    /\ wstatus[w] = "running"
    /\ jkind[wcur[w]] = "returns"
    /\ finished' = finished \cup {wcur[w]}
    /\ wcur' = [wcur EXCEPT ![w] = 0]
    /\ wstatus' = [wstatus EXCEPT ![w] = "waiting"]
    /\ UNCHANGED <<worker, wjobs, tpc, tjob, jkind, before, returned, aborted,
                   begun, logged>>

\* lines 20-21: fn raises an Exception, the handler calls log(...)
Worker_run_Except(w) ==
    /\ wstatus[w] = "running"
    /\ jkind[wcur[w]] = "raises"
    /\ finished' = finished \cup {wcur[w]}
    /\ wcur' = [wcur EXCEPT ![w] = 0]
    /\ IF LogDefined
       THEN /\ logged' = logged \cup {wcur[w]}
            /\ wstatus' = [wstatus EXCEPT ![w] = "waiting"]
       ELSE /\ wstatus' = [wstatus EXCEPT ![w] = "dead"]
            /\ UNCHANGED logged
    /\ UNCHANGED <<worker, wjobs, tpc, tjob, jkind, before, returned, aborted,
                   begun>>

(***************************************************************************)
(* symbols.py: Module and Declaration objects                              *)
(***************************************************************************)
MaxModules == 2
MaxDecls == 2

ModIds == 1 .. MaxModules
DeclIds == 1 .. MaxDecls
Names == {"a", "b"}

\* a dictionary: a function whose domain is its key set
EmptyDict == <<>>
DictSet(f, k, v) == [x \in DOMAIN f \cup {k} |-> IF x = k THEN v ELSE f[x]]
Values(f) == {f[x] : x \in DOMAIN f}

NoModule == [alive |-> FALSE, location |-> 0, declarations |-> EmptyDict]
NoDecl == [alive |-> FALSE, name |-> "", module |-> 0, location |-> 0]

ModuleIdle ==
    /\ mods = [m \in ModIds |-> NoModule]
    /\ decls = [d \in DeclIds |-> NoDecl]
    /\ lastOp = [op |-> "none"]

ModuleInit ==
    /\ mods = [m \in ModIds |-> NoModule]
    /\ decls = [d \in DeclIds |-> NoDecl]
    /\ lastOp = [op |-> "none"]

\* Declaration.__init__(name, module = module): self.module = module; the
\* attribute location is not set (0)
Declaration_init(d, name, module) ==
    [decls EXCEPT ![d] = [alive |-> TRUE, name |-> name, module |-> module,
                          location |-> 0]]

\* Module.__init__(..., declarations, location): the mapping is copied, then
\* every declaration in it gets this module's location and this module
Module_init(m, declarations, location) ==
    [mods |-> [mods EXCEPT ![m] = [alive |-> TRUE, location |-> location,
                                   declarations |-> declarations]],
     decls |-> [d \in DeclIds |->
                  IF d \in Values(declarations)
                  THEN [decls[d] EXCEPT !.location = location, !.module = m]
                  ELSE decls[d]]]

\* a slip of add_declaration: the declaration is stored before the check
add_declaration_StoreFirst(m, d) ==
    LET mod1 == IF decls[d].module = 0 THEN m ELSE decls[d].module
        decls1 == [decls EXCEPT ![d].module = mod1,
                                ![d].location = mods[m].location]
        mods1 == [mods EXCEPT ![m].declarations =
                                 DictSet(@, decls[d].name, d)]
    IN  [mods |-> mods1, decls |-> decls1,
         result |-> IF mod1 # m THEN "RuntimeError" ELSE "ok"]

\* Module.add_declaration(self = m, new_declaration = d)
add_declaration(m, d) ==
    LET \* if not new_declaration.module: new_declaration.module = self
        mod1 == IF decls[d].module = 0 THEN m ELSE decls[d].module
        \* new_declaration.location = self.location
        decls1 == [decls EXCEPT ![d].module = mod1,
                                ![d].location = mods[m].location]
    IN  IF mod1 # m
        THEN \* raise RuntimeError("Adding declaration to other module")
             [mods |-> mods, decls |-> decls1, result |-> "RuntimeError"]
        ELSE \* self.declarations[new_declaration.name] = new_declaration
             [mods |-> [mods EXCEPT ![m].declarations =
                                       DictSet(@, decls[d].name, d)],
              decls |-> decls1, result |-> "ok"]

\* a caller constructs a Declaration, unbound or bound to an existing module
NewDeclaration ==
    \E d \in DeclIds, n \in Names, m \in {0} \cup {x \in ModIds : mods[x].alive} :
        /\ ~decls[d].alive
        /\ \A e \in DeclIds : e < d => decls[e].alive
        /\ decls' = Declaration_init(d, n, m)
        /\ lastOp' = [op |-> "Declaration"]
        /\ UNCHANGED mods

\* the mappings a caller passes as `declarations`: the default {}, the
\* declarations of an existing module, or {d.name: d} of one declaration
DeclarationsArgs ==
    {EmptyDict}
    \cup {mods[x].declarations : x \in {y \in ModIds : mods[y].alive}}
    \cup {DictSet(EmptyDict, decls[d].name, d) : d \in {e \in DeclIds : decls[e].alive}}

\* a caller constructs a Module; module m is given location m, so that the
\* modules have distinct locations
NewModule ==
    \E m \in ModIds, ds \in DeclarationsArgs :
        /\ ~mods[m].alive
        /\ \A x \in ModIds : x < m => mods[x].alive
        /\ LET r == Module_init(m, ds, m) IN
             /\ mods' = r.mods
             /\ decls' = r.decls
        /\ lastOp' = [op |-> "Module"]

\* a caller calls m.add_declaration(d)
AddDeclaration ==
    \E m \in ModIds, d \in DeclIds :
        /\ mods[m].alive
        /\ decls[d].alive
        /\ LET r == add_declaration(m, d) IN
             /\ mods' = r.mods
             /\ decls' = r.decls
             /\ lastOp' = [op |-> "add_declaration", m |-> m, d |-> d,
                           pre_module |-> decls[d].module,
                           pre_declarations |-> mods[m].declarations,
                           result |-> r.result]

(***************************************************************************)
(* symbols.py: same_module                                                 *)
(***************************************************************************)
\* the file names and cabal identities of the modules compared
FileNames == {"f1.hs", "f2.hs"}
CabalIds == {"c1", "c2"}

\* Python's PyNone, where a string or an object is expected
PyNone == "None"

\* truth value of a string or PyNone: PyNone and '' are false
Truthy(x) == x # PyNone /\ x # ""

\* the values of a module's `location`: PyNone, a Location with a filename
\* (a string or PyNone), an InstalledLocation or an OtherLocation; the last two
\* have no attribute `filename`
NoLocation == [kind |-> "None", filename |-> PyNone]
LocationValues ==
    {NoLocation}
    \cup {[kind |-> "Location", filename |-> f] : f \in FileNames \cup {PyNone}}
    \cup {[kind |-> k, filename |-> PyNone] : k \in {"InstalledLocation", "OtherLocation"}}

\* the modules same_module is called on: objects with the attributes name,
\* cabal (PyNone or a string) and location
ModuleValues ==
    [name : {"A", "B"}, cabal : CabalIds \cup {PyNone}, location : LocationValues]

\* truth value of an object reference: only PyNone is false
HasLocation(m) == m.location.kind # "None"

\* a slip of same_module: `or` for the `and` of the return statement
same_module_NameOnly(l, r) ==
    IF HasLocation(l) /\ HasLocation(r)
       /\ (l.location.kind # "Location" \/ r.location.kind # "Location")
    THEN [raised |-> "AttributeError", result |-> FALSE]
    ELSE LET same_cabal == Truthy(l.cabal) /\ Truthy(r.cabal) /\ l.cabal = r.cabal
             same_filename == /\ HasLocation(l) /\ HasLocation(r)
                              /\ l.location.filename = r.location.filename
             nowhere == /\ ~Truthy(l.cabal) /\ ~HasLocation(l)
                        /\ ~Truthy(r.cabal) /\ ~HasLocation(r)
         IN  [raised |-> "no",
              result |-> l.name = r.name \/ (same_cabal \/ same_filename \/ nowhere)]

\* same_module(l, r): the truth value of what it returns, or the exception
\* it raises
same_module(l, r) ==
    IF \* line 564 reads l.location.filename and r.location.filename once
       \* both locations are true
       HasLocation(l) /\ HasLocation(r)
       /\ (l.location.kind # "Location" \/ r.location.kind # "Location")
    THEN [raised |-> "AttributeError", result |-> FALSE]
    ELSE LET same_cabal == Truthy(l.cabal) /\ Truthy(r.cabal) /\ l.cabal = r.cabal
             same_filename == /\ HasLocation(l) /\ HasLocation(r)
                              /\ l.location.filename = r.location.filename
             nowhere == /\ ~Truthy(l.cabal) /\ ~HasLocation(l)
                        /\ ~Truthy(r.cabal) /\ ~HasLocation(r)
         IN  [raised |-> "no",
              result |-> l.name = r.name /\ (same_cabal \/ same_filename \/ nowhere)]

CallSameModule ==
    /\ call.op = "none"
    /\ \E l \in ModuleValues, r \in ModuleValues :
        call' = [op |-> "same_module", l |-> l, r |-> r, out |-> same_module(l, r)]

(***************************************************************************)
(* symbols.py: get_id of the three location variants                       *)
(***************************************************************************)
\* a string is a sequence of one-character strings
MaxIdLen == 3
MaxPartLen == 1
IdChars == {"[", "]", ":", "a"}
Strings(A, n) == UNION {[1 .. k -> A] : k \in 0 .. n}

\* None where a string is expected: no sequence of characters equals it
NoneStr == <<PyNone>>

\* '{0}'.format(x): the text of x
Format(x) == IF x = NoneStr THEN <<"N", "o", "n", "e">> ELSE x

\* PackageDb.__init__(global_db, user_db, package_db)
PackageDb_init(global_db, user_db, package_db) ==
    IF global_db
    THEN [global_db |-> TRUE, user_db |-> FALSE, package_db |-> NoneStr]
    ELSE IF user_db
    THEN [global_db |-> FALSE, user_db |-> TRUE, package_db |-> NoneStr]
    ELSE IF package_db # NoneStr /\ package_db # <<>>
    THEN [global_db |-> FALSE, user_db |-> FALSE, package_db |-> package_db]
    ELSE [global_db |-> FALSE, user_db |-> FALSE, package_db |-> NoneStr]

\* PackageDb.to_string
PackageDb_to_string(db) ==
    IF db.global_db THEN <<"g", "l", "o", "b", "a", "l", "-", "d", "b">>
    ELSE IF db.user_db THEN <<"u", "s", "e", "r", "-", "d", "b">>
    ELSE IF db.package_db # NoneStr /\ db.package_db # <<>> THEN db.package_db
    ELSE NoneStr

\* Package.package_id
package_id(pkg) ==
    IF pkg.version # NoneStr
    THEN Format(pkg.name) \o <<"-">> \o Format(pkg.version)
    ELSE pkg.name

\* Location.get_id
Location_get_id(loc) == loc.filename

\* InstalledLocation.get_id
InstalledLocation_get_id(loc) ==
    Format(PackageDb_to_string(loc.db)) \o <<":">> \o Format(package_id(loc.package))

\* OtherLocation.get_id
OtherLocation_get_id(loc) == <<"[">> \o Format(loc.source) \o <<"]">>

get_id(loc) ==
    CASE loc.variant = "Location" -> Location_get_id(loc)
      [] loc.variant = "InstalledLocation" -> InstalledLocation_get_id(loc)
      [] loc.variant = "OtherLocation" -> OtherLocation_get_id(loc)

\* the locations compared
SourceLocations ==
    {[variant |-> "Location", filename |-> f] :
        f \in Strings(IdChars, MaxIdLen) \cup {NoneStr}}
PackageDbs ==
    {PackageDb_init(TRUE, FALSE, NoneStr), PackageDb_init(FALSE, TRUE, NoneStr)}
    \cup {PackageDb_init(FALSE, FALSE, d) : d \in Strings(IdChars, MaxPartLen)}
Packages ==
    [name : Strings(IdChars, MaxPartLen) \ {<<>>}, version : {NoneStr, <<"1">>}]
InstalledLocations ==
    {[variant |-> "InstalledLocation", package |-> pkg, db |-> db] :
        pkg \in Packages, db \in PackageDbs}
OtherLocations ==
    {[variant |-> "OtherLocation", source |-> src] :
        src \in Strings(IdChars, MaxPartLen) \cup {NoneStr}}
AllLocations == SourceLocations \cup InstalledLocations \cup OtherLocations

CallGetId ==
    /\ call.op = "none"
    /\ \E x \in AllLocations, y \in AllLocations :
        call' = [op |-> "get_id", x |-> x, y |-> y,
                    idx |-> get_id(x), idy |-> get_id(y)]

(***************************************************************************)
(* symbols.py: update_with                                                 *)
(***************************************************************************)
MaxOverrides == 2
Keys == {"k1", "k2", "k3"}
KeyIndex == [k \in Keys |-> CASE k = "k1" -> 1 [] k = "k2" -> 2 [] k = "k3" -> 3]
\* the lists held as values
Vals == {<<>>, <<1>>, <<2>>}
\* the functions passed as f: `lambda a, b: a + b` returns a new list,
\* `lambda a, b: a.extend(b) or a` changes a in place and returns it
CombineFns == {"concat", "extend"}

\* the objects are lists on a heap, a sequence indexed by reference; st is
\* [l |-> the dictionary l, key to reference, heap |-> the heap]
Alloc(st, k, content) ==
    [l |-> DictSet(st.l, k, Len(st.heap) + 1), heap |-> Append(st.heap, content)]

\* a slip of the seeding: l[k] = default_value, without the copy
update_with_seed_NoCopy(st, k, default_value) ==
    [l |-> DictSet(st.l, k, default_value), heap |-> st.heap]

\* line 553: l[k] = default_value[:]
update_with_seed(st, k, default_value) ==
    Alloc(st, k, st.heap[default_value])

\* line 554: l[k] = f(l[k], v)
update_with_combine(st, k, v, f) ==
    IF f = "concat"
    THEN Alloc(st, k, st.heap[st.l[k]] \o v)
    ELSE [l |-> st.l, heap |-> [st.heap EXCEPT ![st.l[k]] = @ \o v]]

\* update_with(l, r, default_value, f): the loop over r.items(), in the
\* order of the dictionary r
RECURSIVE update_with(_, _, _, _)
update_with(st, items, default_value, f) ==
    IF items = <<>>
    THEN st
    ELSE LET k == items[1][1]
             v == items[1][2]
             st1 == IF k \notin DOMAIN st.l
                    THEN update_with_seed(st, k, default_value)
                    ELSE st
         IN  update_with(update_with_combine(st1, k, v, f), Tail(items),
                         default_value, f)

\* the heap before the call: reference 1 is default_value, then one list of
\* its own for every key of l
RefOf(P, k) == 1 + Cardinality({x \in P : KeyIndex[x] <= KeyIndex[k]})
InitialState(P, cont, d) ==
    [l |-> [k \in P |-> RefOf(P, k)],
     heap |-> [i \in 1 .. 1 + Cardinality(P) |->
                 IF i = 1 THEN d
                 ELSE cont[CHOOSE k \in P : RefOf(P, k) = i]]]

CallUpdateWith ==
    /\ call.op = "none"
    /\ \E P \in SUBSET Keys, d \in Vals, f \in CombineFns, n \in 0 .. MaxOverrides :
      \E cont \in [P -> Vals], ks \in [1 .. n -> Keys], vs \in [1 .. n -> Vals] :
        /\ \A i, j \in 1 .. n : ks[i] = ks[j] => i = j
        /\ LET pre == InitialState(P, cont, d)
               items == [i \in 1 .. n |-> <<ks[i], vs[i]>>]
           IN  call' = [op |-> "update_with", pre |-> pre, r |-> items,
                        default_value |-> 1, f |-> f,
                        post |-> update_with(pre, items, 1, f)]

(***************************************************************************)
(* symbols.py: the popup renderers                                         *)
(*                                                                         *)
(* A rendered text is a sequence of pieces [c, o].  A character that comes *)
(* from a field of the declaration is a piece of its own, c the character  *)
(* and o the field it comes from.  A literal of the renderer (a tag, an    *)
(* &nbsp;, a separator) is one piece with o = "markup", and an entity that *)
(* html.escape wrote for a character is one piece with o = "escape".       *)
(***************************************************************************)
MaxDocsLen == 2
MaxTypeLen == 2

Markup(s) == <<[c |-> s, o |-> "markup"]>>
Text(s, o) == [i \in 1 .. Len(s) |-> [c |-> s[i], o |-> o]]
\* a literal of the renderer that is searched or escaped afterwards,
\* character by character
Literal(s) == Text(s, "markup")

\* sep.join(parts)
RECURSIVE Join(_, _)
Join(sep, parts) ==
    IF parts = <<>> THEN <<>>
    ELSE IF Len(parts) = 1 THEN parts[1]
    ELSE parts[1] \o sep \o Join(sep, Tail(parts))

\* n * s
RECURSIVE Repeat(_, _)
Repeat(n, s) == IF n = 0 THEN <<>> ELSE s \o Repeat(n - 1, s)

\* html.escape(s, quote): & < > and, with quote, " ' become entities
html_escape(s, quote) ==
    [i \in 1 .. Len(s) |->
        CASE s[i].c = "&" -> [c |-> "&amp;", o |-> "escape"]
          [] s[i].c = "<" -> [c |-> "&lt;", o |-> "escape"]
          [] s[i].c = ">" -> [c |-> "&gt;", o |-> "escape"]
          [] quote /\ s[i].c = "\"" -> [c |-> "&quot;", o |-> "escape"]
          [] quote /\ s[i].c = "'" -> [c |-> "&#x27;", o |-> "escape"]
          [] OTHER -> s[i]]

\* txt.splitlines()
RECURSIVE splitlines(_)
splitlines(s) ==
    IF s = <<>> THEN <<>>
    ELSE LET nl == {i \in 1 .. Len(s) : s[i].c = "\n"}
         IN  IF nl = {} THEN <<s>>
             ELSE LET i == CHOOSE x \in nl : \A y \in nl : x <= y
                  IN  <<SubSeq(s, 1, i - 1)>> \o splitlines(SubSeq(s, i + 1, Len(s)))

\* m.end() of re.match(r'^\s+', line): the number of leading white spaces
LeadingSpaces(line) ==
    LET other == {i \in 1 .. Len(line) : line[i].c # " "}
    IN  IF other = {} THEN Len(line)
        ELSE (CHOOSE x \in other : \A y \in other : x <= y) - 1

\* a slip of escape_text: the text after the leading spaces is not escaped
escape_text_RawAfterSpaces(txt) ==
    LET lines == splitlines(txt)
    IN  Join(Markup("<br>"),
             [i \in 1 .. Len(lines) |->
                 LET n == LeadingSpaces(lines[i])
                 IN  IF n > 0
                     THEN Repeat(n, Markup("&nbsp;"))
                          \o SubSeq(lines[i], n + 1, Len(lines[i]))
                     ELSE html_escape(lines[i], FALSE)])

\* escape_text(txt)
escape_text(txt) ==
    LET lines == splitlines(txt)
    IN  Join(Markup("<br>"),
             [i \in 1 .. Len(lines) |->
                 LET n == LeadingSpaces(lines[i])
                 IN  IF n > 0
                     THEN Repeat(n, Markup("&nbsp;"))
                          \o html_escape(SubSeq(lines[i], n + 1, Len(lines[i])), FALSE)
                     ELSE html_escape(lines[i], FALSE)])

\* the characters of the regular expressions of format_type
Lower == {"a"}
Upper == {"B"}
Letters == Lower \cup Upper
WordChars == Letters \cup {"0", "1", "_"}

\* re.search(r'([a-zA-Z]\w*)|(->|=>|::)', expr): the leftmost match, the
\* identifier tried first; [start, end, group], start = 0 when none matches
IsOperatorAt(expr, i) ==
    /\ i < Len(expr)
    /\ <<expr[i].c, expr[i + 1].c>> \in {<<"-", ">">>, <<"=", ">">>, <<":", ":">>}
TypeMatch(expr) ==
    LET starts == {i \in 1 .. Len(expr) :
                      expr[i].c \in Letters \/ IsOperatorAt(expr, i)}
    IN  IF starts = {} THEN [start |-> 0, end |-> 0, group |-> 0]
        ELSE LET i == CHOOSE x \in starts : \A y \in starts : x <= y
             IN  IF expr[i].c \in Letters
                 THEN LET stop == {j \in i + 1 .. Len(expr) : expr[j].c \notin WordChars}
                      IN  [start |-> i,
                           end |-> IF stop = {} THEN Len(expr)
                                   ELSE (CHOOSE x \in stop : \A y \in stop : x <= y) - 1,
                           group |-> 1]
                 ELSE [start |-> i, end |-> i + 1, group |-> 2]

\* format_type(expr)
RECURSIVE format_type(_)
format_type(expr) ==
    IF expr = <<>> THEN expr
    ELSE LET m == TypeMatch(expr)
         IN  IF m.start = 0 THEN html_escape(expr, FALSE)
             ELSE LET e == SubSeq(expr, m.start, m.end)
                      expr_class ==
                          IF m.group = 1
                          THEN (IF e[1].c \in Upper THEN "type" ELSE "tyvar")
                          ELSE "operator"
                      decorated ==
                          Markup("<span class=\"") \o Markup(expr_class) \o Markup("\">")
                          \o html_escape(e, FALSE) \o Markup("</span>")
                  IN  html_escape(SubSeq(expr, 1, m.start - 1), FALSE)
                      \o decorated
                      \o format_type(SubSeq(expr, m.end + 1, Len(expr)))

\* Declaration.defined_module: `defined` is not set in the declarations
\* rendered here, the module is
defined_module(d) == d.module

\* Declaration.has_source_location
has_source_location(d) ==
    defined_module(d).location.kind = "Location" /\ d.position # NoneStr

\* source_location(loc, pos) of get_source_location
get_source_location(d) ==
    Text(defined_module(d).location.filename, "file")
    \o Markup(":") \o Text(d.position, "position")

\* the anchor that popup_brief puts around info
SourceLink(d, info) ==
    IF has_source_location(d)
    THEN Markup("<a href=\"") \o html_escape(get_source_location(d), TRUE)
         \o Markup("\">") \o info \o Markup("</a>")
    ELSE info

\* Declaration.popup_brief
Declaration_popup_brief(d) ==
    SourceLink(d, Markup("<span class=\"function\">")
                  \o html_escape(Text(d.name, "name"), FALSE)
                  \o Markup("</span>"))

\* Function.popup_brief
Function_popup_brief(d) ==
    SourceLink(d, Markup("<span class=\"function\">")
                  \o html_escape(Text(d.name, "name"), FALSE)
                  \o Markup("</span>"))
    \o Markup(" <span class=\"operator\">::</span> ")
    \o (IF d.type # NoneStr /\ d.type # <<>>
        THEN format_type(Text(d.type, "type"))
        ELSE format_type(Literal(<<"?">>)))

\* str.split(', ') of a context
RECURSIVE SplitCommaSpace(_)
SplitCommaSpace(s) ==
    LET at == {i \in 1 .. Len(s) - 1 : s[i].c = "," /\ s[i + 1].c = " "}
    IN  IF at = {} THEN <<s>>
        ELSE LET i == CHOOSE x \in at : \A y \in at : x <= y
             IN  <<SubSeq(s, 1, i - 1)>> \o SplitCommaSpace(SubSeq(s, i + 2, Len(s)))

\* TypeBase.popup_brief
TypeBase_popup_brief(d) ==
    LET what_part == Markup("<span class=\"keyword\">")
                     \o html_escape(Text(d.what, "what"), FALSE)
                     \o Markup("</span>")
        ctx == SplitCommaSpace(Text(d.context, "context"))
        context_part ==
            IF d.context = NoneStr \/ d.context = <<>> THEN <<>>
            ELSE IF Len(ctx) = 1
            THEN <<format_type(ctx[1] \o Literal(<<" ", "=", ">">>))>>
            ELSE <<format_type(Literal(<<"(">>) \o Join(Literal(<<",", " ">>), ctx)
                               \o Literal(<<")", " ", "=", ">">>))>>
        name_part == SourceLink(d, Markup("<span class=\"type\">")
                                   \o html_escape(Text(d.name, "name"), FALSE)
                                   \o Markup("</span>"))
        args_part ==
            IF d.args = <<>> THEN <<>>
            ELSE <<format_type(Join(Literal(<<" ">>),
                                    [i \in 1 .. Len(d.args) |-> Text(d.args[i], "args")]))>>
    IN  Join(Markup(" "), <<what_part>> \o context_part \o <<name_part>> \o args_part)

\* self.popup_brief() of the declaration's class
popup_brief(d) ==
    CASE d.variant = "Declaration" -> Declaration_popup_brief(d)
      [] d.variant = "Function" -> Function_popup_brief(d)
      [] d.variant = "TypeBase" -> TypeBase_popup_brief(d)

\* Package.package_id of the package of an InstalledLocation, as text
PackageIdText(pkg) ==
    IF pkg.version # NoneStr
    THEN Text(pkg.name, "package") \o Markup("-") \o Text(pkg.version, "package")
    ELSE Text(pkg.name, "package")

\* name.replace('.', '-')
DotsToDashes(s) == [i \in 1 .. Len(s) |-> IF s[i] = "." THEN "-" ELSE s[i]]

\* Declaration.popup
popup(d) ==
    LET mod == defined_module(d)
        \* imported_names(): the sorted set of the modules imported from;
        \* at most one import is given here
        imported_part ==
            IF d.imported = <<>> THEN <<>>
            ELSE Markup("<br>") \o Repeat(4, Markup("&nbsp;"))
                 \o Markup("<span class=\"comment\">-- Imported from ")
                 \o html_escape(Join(Markup(", "),
                        [i \in 1 .. Len(d.imported) |-> Text(d.imported[i], "imported")]),
                        FALSE)
                 \o Markup("</span>")
        name_ref == html_escape(Text(mod.name, "module"), FALSE)
        module_ref ==
            IF mod.location.kind = "Location"
            THEN Markup("<a href=\"") \o Text(mod.location.filename, "file")
                 \o Markup("\">") \o name_ref \o Markup("</a>")
            ELSE IF mod.location.kind = "InstalledLocation"
            THEN Markup("<a href=\"")
                 \o html_escape(Markup("http://hackage.haskell.org/package/")
                                \o PackageIdText(mod.location.package)
                                \o Markup("/docs/")
                                \o Text(DotsToDashes(mod.name), "module")
                                \o Markup(".html"), TRUE)
                 \o Markup("\">") \o name_ref \o Markup("</a>")
            ELSE name_ref
        defined_part ==
            Markup("<br>") \o Repeat(4, Markup("&nbsp;"))
            \o Markup("<span class=\"comment\">-- Defined in ")
            \o module_ref \o Markup("</span>")
        docs_part ==
            IF d.docs # NoneStr /\ d.docs # <<>>
            THEN Markup("<p><span class=\"docs\">")
                 \o escape_text(Text(d.docs, "docs"))
                 \o Markup("</span></p>")
            ELSE <<>>
    IN  Markup("<p>") \o popup_brief(d) \o imported_part \o defined_part
        \o Markup("</p>") \o docs_part

\* the declarations rendered
NameValues == {<<c>> : c \in {"n", "<", ">", "&"}}
DocsValues == Strings({" ", "\n", "<", "&"}, MaxDocsLen) \cup {NoneStr}
TypeValues == Strings({"a", "B", "-", ">"}, MaxTypeLen) \cup {NoneStr}
PopupModules ==
    {[name |-> <<"M", ".", "N">>, location |-> loc] :
        loc \in {[kind |-> "Location", filename |-> <<"f">>],
                 [kind |-> "Location", filename |-> <<"&">>],
                 [kind |-> "InstalledLocation",
                  package |-> [name |-> <<"p">>, version |-> <<"1">>]],
                 [kind |-> "OtherLocation", source |-> <<"h">>]}}
Positions == {NoneStr, <<"1", ":", "2">>}
ImportedValues == {<<>>, << <<"I">> >>}

BaseDeclarations ==
    [variant : {"Declaration"}, name : NameValues, docs : DocsValues,
     imported : ImportedValues, position : Positions, module : PopupModules]
Functions ==
    [variant : {"Function"}, name : NameValues, docs : DocsValues,
     type : TypeValues,
     imported : {<<>>}, position : Positions, module : PopupModules]
TypeBases ==
    [variant : {"TypeBase"}, name : NameValues, docs : DocsValues,
     what : {<<"d", "a", "t", "a">>},
     context : {NoneStr, <<"B", " ", "a">>, <<"B", ",", " ", "a">>},
     args : {<<>>, << <<"a">>, <<">">> >>},
     imported : {<<>>}, position : Positions, module : PopupModules]
Declarations == BaseDeclarations \cup Functions \cup TypeBases

CallPopup ==
    /\ call.op = "none"
    /\ \E d \in Declarations :
         call' = [op |-> "popup", d |-> d, out |-> popup(d)]

CallPopupBrief ==
    /\ call.op = "none"
    /\ \E d \in Declarations :
         call' = [op |-> "popup_brief", d |-> d, out |-> popup_brief(d)]

(***************************************************************************)
(* symbols.py: mark_corrections                                            *)
(***************************************************************************)
MaxViews == 2
MaxCorrs == 2

\* the paths given as file names; Inode is the file a path names on disk, 0
\* when no file has that path: two spellings name file 1
Paths == {"/p/a.hs", "/p/./a.hs", "/p/b.hs", "/p/gone.hs"}
Inode(path) ==
    CASE path = "/p/a.hs" -> 1
      [] path = "/p/./a.hs" -> 1
      [] path = "/p/b.hs" -> 2
      [] path = "/p/gone.hs" -> 0

\* view.file_name() and Correction.file: a path or None
FileValues == Paths \cup {PyNone}

\* os.stat(path) of os.path.samefile
os_stat(path) ==
    IF path = PyNone THEN [raised |-> "TypeError", ino |-> 0]
    ELSE IF Inode(path) = 0 THEN [raised |-> "FileNotFoundError", ino |-> 0]
    ELSE [raised |-> "no", ino |-> Inode(path)]

\* os.path.samefile(f1, f2): os.stat(f1), then os.stat(f2), then the
\* comparison of the two files
os_path_samefile(f1, f2) ==
    LET s1 == os_stat(f1)
        s2 == os_stat(f2)
    IN  IF s1.raised # "no" THEN [raised |-> s1.raised, same |-> FALSE]
        ELSE IF s2.raised # "no" THEN [raised |-> s2.raised, same |-> FALSE]
        ELSE [raised |-> "no", same |-> s1.ino = s2.ino]

\* line 661: [corr for corr in corrs if os.path.samefile(corr.file,
\* view.file_name())], from correction i on; the corrections kept are named
\* by their index in corrs
RECURSIVE corrs_of_view(_, _, _)
corrs_of_view(corrs, file_name, i) ==
    IF i > Len(corrs) THEN [raised |-> "no", kept |-> <<>>]
    ELSE LET same == os_path_samefile(corrs[i], file_name)
         IN  IF same.raised # "no" THEN [raised |-> same.raised, kept |-> <<>>]
             ELSE LET rest == corrs_of_view(corrs, file_name, i + 1)
                  IN  [raised |-> rest.raised,
                       kept |-> IF same.same THEN <<i>> \o rest.kept ELSE rest.kept]

\* mark_corrections(views, corrs), from view v on: the add_regions requests
\* made, each [view, key, regions], regions being one corr.to_region(view)
\* per correction kept, and the exception that ended the call, if any
RECURSIVE mark_corrections(_, _, _)
mark_corrections(views, corrs, v) ==
    IF v > Len(views) THEN [raised |-> "no", requests |-> <<>>]
    ELSE IF views[v] = PyNone
    THEN \* if view.file_name() is None: continue
         mark_corrections(views, corrs, v + 1)
    ELSE LET corrs_ == corrs_of_view(corrs, views[v], 1)
         IN  IF corrs_.raised # "no"
             THEN [raised |-> corrs_.raised, requests |-> <<>>]
             ELSE LET rest == mark_corrections(views, corrs, v + 1)
                  IN  [raised |-> rest.raised,
                       requests |-> <<[view |-> v, key |-> "autofix",
                                       regions |-> corrs_.kept]>> \o rest.requests]

\* views and corrs are given by the file of each
CallMarkCorrections ==
    /\ call.op = "none"
    /\ \E nv \in 0 .. MaxViews, nc \in 0 .. MaxCorrs :
         \E views \in [1 .. nv -> FileValues], corrs \in [1 .. nc -> FileValues] :
            call' = [op |-> "mark_corrections", views |-> views, corrs |-> corrs,
                     out |-> mark_corrections(views, corrs, 1)]

CallIdle == call = [op |-> "none"]

Init ==
    /\ WorkerInit
    /\ ModuleIdle
    /\ CallIdle

Next ==
    \/ \E t \in Threads : run_async_Call(t) /\ UNCHANGED <<mvars, call>>
    \/ \E t \in Threads : run_async_Test(t) /\ UNCHANGED <<mvars, call>>
    \/ \E t \in Threads : run_async_Create(t) /\ UNCHANGED <<mvars, call>>
    \/ \E t \in Threads : run_async_Start(t) /\ UNCHANGED <<mvars, call>>
    \/ \E t \in Threads : run_async_Put(t) /\ UNCHANGED <<mvars, call>>
    \/ \E w \in Workers : Worker_run_Get(w) /\ UNCHANGED <<mvars, call>>
    \/ \E w \in Workers : Worker_run_Return(w) /\ UNCHANGED <<mvars, call>>
    \/ \E w \in Workers : Worker_run_Except(w) /\ UNCHANGED <<mvars, call>>

Spec == Init /\ [][Next]_vars

\* the scheduling of the threads: a thread that can take its next step is
\* not held back forever, be it the Worker thread in run (jobs.get() returns
\* once the queue holds a job, and a job body returns or raises) or a thread
\* inside a call of run_async; no thread has to begin a call
WorkerFairness ==
    \A w \in Workers :
        /\ WF_vars(Worker_run_Get(w) /\ UNCHANGED <<mvars, call>>)
        /\ WF_vars(Worker_run_Return(w) /\ UNCHANGED <<mvars, call>>)
        /\ WF_vars(Worker_run_Except(w) /\ UNCHANGED <<mvars, call>>)

CallerFairness ==
    \A t \in Threads :
        /\ WF_vars(run_async_Test(t) /\ UNCHANGED <<mvars, call>>)
        /\ WF_vars(run_async_Create(t) /\ UNCHANGED <<mvars, call>>)
        /\ WF_vars(run_async_Start(t) /\ UNCHANGED <<mvars, call>>)
        /\ WF_vars(run_async_Put(t) /\ UNCHANGED <<mvars, call>>)

FairSpec == Init /\ [][Next]_vars /\ WorkerFairness /\ CallerFairness

WorkerIdle ==
    /\ worker = 0
    /\ wstatus = <<>>
    /\ wjobs = <<>>
    /\ wcur = <<>>
    /\ tpc = <<>>
    /\ tjob = <<>>
    /\ jkind = <<>>
    /\ before = <<>>
    /\ returned = {}
    /\ aborted = {}
    /\ begun = {}
    /\ finished = {}
    /\ logged = {}

InitModule ==
    /\ WorkerIdle
    /\ ModuleInit
    /\ CallIdle

NextModule ==
    \/ NewDeclaration /\ UNCHANGED <<wvars, call>>
    \/ NewModule /\ UNCHANGED <<wvars, call>>
    \/ AddDeclaration /\ UNCHANGED <<wvars, call>>

SpecModule == InitModule /\ [][NextModule]_vars


(***************************************************************************)
(* Claims about worker.py, under Spec                                      *)
(***************************************************************************)
Running == {w \in Workers : wstatus[w] = "running"}
Created == {w \in Workers : wstatus[w] # "absent"}

\* C1: jobs are executed serially in submission order: at no time are two
\* jobs executing, and when the run_async call of j1 returned before the
\* call of j2 began, j1 has finished executing before j2 starts
C1_SerialInSubmissionOrder ==
    /\ Cardinality(Running) <= 1
    /\ \A j2 \in begun : \A j1 \in before[j2] : j1 \in finished

\* C2: a job that raises never terminates the worker: no worker thread has
\* left its loop, and every job that raised was logged
C2_FaultNeverTerminatesWorker ==
    /\ \A w \in Workers : wstatus[w] # "dead"
    /\ \A j \in finished : jkind[j] = "raises" => j \in logged

\* C3: exactly one Worker is ever created and started, and every submitted
\* job is put on the queue of that Worker
C3_SingletonWorker ==
    /\ Cardinality(Created) <= 1
    /\ \A j \in returned : \A w \in Created :
          \/ j \in begun
          \/ \E i \in 1 .. Len(wjobs[w]) : wjobs[w][i] = j

\* C12: under FairSpec, every job submitted through run_async (its call
\* returned) is eventually dequeued and executed: its body has returned or
\* raised, whatever the jobs before it did
C12_SubmittedJobEventuallyExecuted ==
    \A j \in Jobs : (j \in returned) ~> (j \in begun /\ j \in finished)

(***************************************************************************)
(* Claims about Module.add_declaration, under SpecModule                   *)
(***************************************************************************)
\* the last operation was m.add_declaration(d) with d bound to another module
AddToOtherModule ==
    /\ lastOp.op = "add_declaration"
    /\ lastOp.pre_module # 0
    /\ lastOp.pre_module # lastOp.m

\* C4: add_declaration on module M with a declaration bound to a different
\* module raises RuntimeError and leaves M.declarations unchanged (same keys,
\* same declaration objects)
C4_ForeignDeclarationRejected ==
    AddToOtherModule =>
        /\ lastOp.result = "RuntimeError"
        /\ mods[lastOp.m].declarations = lastOp.pre_declarations

\* a declaration of another module was refused by a module that holds
\* declarations of its own
C4_Witness ==
    /\ AddToOtherModule
    /\ lastOp.result = "RuntimeError"
    /\ lastOp.pre_declarations # EmptyDict
    /\ lastOp.d \notin Values(lastOp.pre_declarations)

\* C5: every declaration reachable from the declarations of a module M has
\* M as its module and M's location as its location
C5_OwnershipInvariant ==
    \A m \in ModIds : mods[m].alive =>
        \A d \in Values(mods[m].declarations) :
            /\ decls[d].module = m
            /\ decls[d].location = mods[m].location

InitSame ==
    /\ WorkerIdle
    /\ ModuleIdle
    /\ CallIdle

NextSame == CallSameModule /\ UNCHANGED <<wvars, mvars>>

SpecSame == InitSame /\ [][NextSame]_vars

(***************************************************************************)
(* Claims about same_module, under SpecSame                                *)
(***************************************************************************)
\* a module has a source file path: a Location whose filename is set
HasFilePath(m) == m.location.kind = "Location" /\ Truthy(m.location.filename)

\* C6: same_module(l, r) is true iff the names are equal and (both have a
\* non-null cabal identity and these are equal, or both have a source file
\* path and these are equal, or neither has a cabal identity nor a location)
C6_SameModuleIff ==
    call.op = "same_module" =>
        LET l == call.l
            r == call.r
        IN  (call.out.raised = "no" /\ call.out.result)
            <=> /\ l.name = r.name
                /\ \/ l.cabal # PyNone /\ r.cabal # PyNone /\ l.cabal = r.cabal
                   \/ /\ HasFilePath(l) /\ HasFilePath(r)
                      /\ l.location.filename = r.location.filename
                   \/ /\ l.cabal = PyNone /\ ~HasLocation(l)
                      /\ r.cabal = PyNone /\ ~HasLocation(r)

\* same_module was called on modules with equal names and non-null,
\* differing cabal identities
DifferingCabal ==
    /\ call.op = "same_module"
    /\ call.l.name = call.r.name
    /\ call.l.cabal # PyNone
    /\ call.r.cabal # PyNone
    /\ call.l.cabal # call.r.cabal

\* C7 as stated: modules with equal names and non-null, differing cabal
\* identities are never reported as the same module, whatever their locations
C7_DifferingCabalNeverSame ==
    DifferingCabal => ~(call.out.raised = "no" /\ call.out.result)

\* C7 as amended: such modules are reported as the same module only when
\* both have a location and the filenames of the two locations are equal
C7_DifferingCabalSameOnlyByFilename ==
    DifferingCabal /\ call.out.raised = "no" /\ call.out.result =>
        /\ call.l.location.kind = "Location"
        /\ call.r.location.kind = "Location"
        /\ call.l.location.filename = call.r.location.filename

\* modules of differing cabal identities in different files were compared,
\* and reported as different
C7_Witness ==
    /\ DifferingCabal
    /\ HasFilePath(call.l)
    /\ HasFilePath(call.r)
    /\ call.l.location.filename # call.r.location.filename
    /\ call.out.raised = "no"
    /\ ~call.out.result

InitGetId ==
    /\ WorkerIdle
    /\ ModuleIdle
    /\ CallIdle

NextGetId == CallGetId /\ UNCHANGED <<wvars, mvars>>

SpecGetId == InitGetId /\ [][NextGetId]_vars

\* C8: the get_id values of two locations of different variants are never
\* equal
C8_IdsCollisionFree ==
    call.op = "get_id" /\ call.x.variant # call.y.variant => call.idx # call.idy

InitUpdateWith ==
    /\ WorkerIdle
    /\ ModuleIdle
    /\ CallIdle

NextUpdateWith == CallUpdateWith /\ UNCHANGED <<wvars, mvars>>

SpecUpdateWith == InitUpdateWith /\ [][NextUpdateWith]_vars

(***************************************************************************)
(* Claims about update_with, under SpecUpdateWith                          *)
(***************************************************************************)
OverrideKeys == {call.r[i][1] : i \in 1 .. Len(call.r)}
OverrideOf(k) == call.r[CHOOSE i \in 1 .. Len(call.r) : call.r[i][1] = k][2]

\* C9: after update_with the keys of l are its previous keys and the keys of
\* r; a key not in r maps to the same object with the same contents; a key k
\* of r maps to f(old, r[k]), old being the previous value or, for a key that
\* was absent, a copy of default_value; default_value itself is not modified
\* and is not the object stored
C9_UnionMerge ==
    call.op = "update_with" =>
        LET pre == call.pre
            post == call.post
        IN  /\ DOMAIN post.l = DOMAIN pre.l \cup OverrideKeys
            /\ \A k \in DOMAIN pre.l \ OverrideKeys :
                  /\ post.l[k] = pre.l[k]
                  /\ post.heap[post.l[k]] = pre.heap[pre.l[k]]
            /\ \A k \in OverrideKeys :
                  LET old == IF k \in DOMAIN pre.l
                             THEN pre.heap[pre.l[k]]
                             ELSE pre.heap[call.default_value]
                  IN  post.heap[post.l[k]] = old \o OverrideOf(k)
            /\ post.heap[call.default_value] = pre.heap[call.default_value]
            /\ \A k \in DOMAIN post.l : post.l[k] # call.default_value

\* update_with seeded two absent keys from a non-empty default, combined in
\* place, and kept a key that r does not name
C9_Witness ==
    /\ call.op = "update_with"
    /\ call.f = "extend"
    /\ Cardinality(OverrideKeys \ DOMAIN call.pre.l) = 2
    /\ DOMAIN call.pre.l \ OverrideKeys # {}
    /\ call.pre.heap[call.default_value] # <<>>
    /\ \A i \in 1 .. Len(call.r) : call.r[i][2] # <<>>

InitPopup ==
    /\ WorkerIdle
    /\ ModuleIdle
    /\ CallIdle

NextPopup ==
    \/ CallPopup /\ UNCHANGED <<wvars, mvars>>
    \/ CallPopupBrief /\ UNCHANGED <<wvars, mvars>>

SpecPopup == InitPopup /\ [][NextPopup]_vars

(***************************************************************************)
(* Claims about popup and popup_brief, under SpecPopup                     *)
(***************************************************************************)
MarkupChars == {"<", ">", "&"}
ClaimedFields == {"name", "docs", "type"}
Rendered == call.op \in {"popup", "popup_brief"}

InitMark ==
    /\ WorkerIdle
    /\ ModuleIdle
    /\ CallIdle

NextMark == CallMarkCorrections /\ UNCHANGED <<wvars, mvars>>

SpecMark == InitMark /\ [][NextMark]_vars

(***************************************************************************)
(* Claims about mark_corrections, under SpecMark                           *)
(***************************************************************************)
\* the corrections whose file is the same underlying file as the file of a
\* view: a correction with no file, or with a file that is not on disk, is
\* the file of no view
SameUnderlyingFile(corr_file, view_file) ==
    /\ corr_file # PyNone
    /\ view_file # PyNone
    /\ Inode(corr_file) # 0
    /\ Inode(corr_file) = Inode(view_file)

\* C11: mark_corrections never raises; a view with no file gets no request;
\* a view with a file gets exactly one add_regions request, under 'autofix',
\* with one region per correction of the same underlying file and no other
C11_MarkCorrections ==
    call.op = "mark_corrections" =>
        LET views == call.views
            corrs == call.corrs
            reqs == call.out.requests
        IN  /\ call.out.raised = "no"
            /\ \A v \in 1 .. Len(views) :
                  LET mine == {i \in 1 .. Len(reqs) : reqs[i].view = v}
                  IN  IF views[v] = PyNone
                      THEN mine = {}
                      ELSE /\ Cardinality(mine) = 1
                           /\ \A i \in mine :
                                 /\ reqs[i].key = "autofix"
                                 /\ \A c \in 1 .. Len(corrs) :
                                       Cardinality({k \in 1 .. Len(reqs[i].regions) :
                                                       reqs[i].regions[k] = c})
                                       = IF SameUnderlyingFile(corrs[c], views[v])
                                         THEN 1 ELSE 0

=============================================================================
